---- MODULE Spec2Model ----
(***************************************************************************)
(* Model of the query-resolution and caching layer of the stock assistant  *)
(* (05_src/assignment-02/utils/api.py): the symbol resolver _get_symbol,   *)
(* the module-level cache API_CALL_CACHE with its 60 minute staleness      *)
(* test, get_stock_price and clear_cache.                                  *)
(*                                                                         *)
(* Python text is modelled as a sequence of one-character strings, so that *)
(* lower(), strip(), startswith(), rstrip() and the `in` substring test    *)
(* are computed and not assumed.  A Python value is a record tagged by its *)
(* type in field t.  A returned message is a record naming the f-string    *)
(* template of the source and the values interpolated into it.             *)
(***************************************************************************)
EXTENDS Integers, Sequences, FiniteSets, TLC

VARIABLES
    now,                   \* datetime.now(), in minutes
    ALPHAVANTAGE_API_KEY,  \* api.py:14, the module global read by get_stock_price
    API_CALL_CACHE,        \* api.py:64, cache key -> <<result, stored time>>
    last,                  \* the most recent call: its argument and how it ended
    arg,                   \* the argument drawn for a resolver run (SpecSym)
    observed,              \* bookkeeping: key -> <<result, time>> of the last fetch stored since the last clear
    served,                \* bookkeeping: query -> <<result, time>> of its last call that returned a price since the last clear
    cleared,               \* bookkeeping: keys emptied by clear_cache and not refilled since
    conversation_memory,   \* memory.py:7, the retained <<user, bot>> pairs, oldest first
    appended,              \* bookkeeping: the <<user, bot>> arguments of the add_to_memory calls that returned since the last clear_memory
    pending,               \* mcp.py: the coroutines suspended at their await asyncio.sleep
    threads                \* get_stock_price calls in flight on threads: each blocked in requests.get

vars == <<now, ALPHAVANTAGE_API_KEY, API_CALL_CACHE, last, arg, observed, served, cleared,
          conversation_memory, appended, pending, threads>>

\* the state of memory.py and mcp.py and the calls in flight, left alone by the
\* sequential operations of api.py
restVars == <<conversation_memory, appended, pending, threads>>

-----------------------------------------------------------------------------
(* Python values *)

PyNone == [t |-> "none"]
PyStr(s) == [t |-> "str", s |-> s]
PyInt(n) == [t |-> "int", n |-> n]
PyBool(b) == [t |-> "bool", b |-> b]
PyList(l) == [t |-> "list", l |-> l]
PyDict(d) == [t |-> "dict", d |-> d]

\* Python truth value, as `not query` and `not quote` use it.
Truthy(v) ==
    CASE v.t = "none" -> FALSE
      [] v.t = "str"  -> v.s # <<>>
      [] v.t = "int"  -> v.n # 0
      [] v.t = "bool" -> v.b
      [] v.t = "list" -> v.l # <<>>
      [] v.t = "dict" -> DOMAIN v.d # {}

IsStr(v) == v.t = "str"

-----------------------------------------------------------------------------
(* Python str methods on character sequences (ASCII) *)

UpperCase == <<"A","B","C","D","E","F","G","H","I","J","K","L","M","N","O","P","Q","R","S","T","U","V","W","X","Y","Z">>
LowerCase == <<"a","b","c","d","e","f","g","h","i","j","k","l","m","n","o","p","q","r","s","t","u","v","w","x","y","z">>

Whitespace == {" ", "\t", "\n", "\r", "\f"}

ToLower(c) ==
    IF \E i \in 1..Len(UpperCase) : UpperCase[i] = c
    THEN LowerCase[CHOOSE i \in 1..Len(UpperCase) : UpperCase[i] = c]
    ELSE c

ToUpper(c) ==
    IF \E i \in 1..Len(LowerCase) : LowerCase[i] = c
    THEN UpperCase[CHOOSE i \in 1..Len(LowerCase) : LowerCase[i] = c]
    ELSE c

\* str.lower()
Lower(s) == [i \in 1..Len(s) |-> ToLower(s[i])]

RECURSIVE LStrip(_)
LStrip(s) == IF s # <<>> /\ Head(s) \in Whitespace THEN LStrip(Tail(s)) ELSE s

RECURSIVE RStrip(_)
RStrip(s) == IF s # <<>> /\ s[Len(s)] \in Whitespace THEN RStrip(SubSeq(s, 1, Len(s) - 1)) ELSE s

\* str.strip()
Strip(s) == RStrip(LStrip(s))

\* needle in hay, for two str
Contains(hay, needle) ==
    \E i \in 0..(Len(hay) - Len(needle)) : SubSeq(hay, i + 1, i + Len(needle)) = needle

-----------------------------------------------------------------------------
(* COMPANY_SYMBOLS, api.py:17-61, in insertion order: <<name, ticker>> *)

COMPANY_SYMBOLS ==
    <<
       <<<<"m","i","c","r","o","s","o","f","t">>, <<"M","S","F","T">>>>,
       <<<<"a","p","p","l","e">>, <<"A","A","P","L">>>>,
       <<<<"g","o","o","g","l","e">>, <<"G","O","O","G","L">>>>,
       <<<<"a","l","p","h","a","b","e","t">>, <<"G","O","O","G","L">>>>,
       <<<<"a","m","a","z","o","n">>, <<"A","M","Z","N">>>>,
       <<<<"m","e","t","a">>, <<"M","E","T","A">>>>,
       <<<<"f","a","c","e","b","o","o","k">>, <<"M","E","T","A">>>>,
       <<<<"t","e","s","l","a">>, <<"T","S","L","A">>>>,
       <<<<"n","v","i","d","i","a">>, <<"N","V","D","A">>>>,
       <<<<"i","n","t","e","l">>, <<"I","N","T","C">>>>,
       <<<<"a","m","d">>, <<"A","M","D">>>>,
       <<<<"i","b","m">>, <<"I","B","M">>>>,
       <<<<"j","p","m","o","r","g","a","n">>, <<"J","P","M">>>>,
       <<<<"g","o","l","d","m","a","n">>, <<"G","S">>>>,
       <<<<"m","o","r","g","a","n"," ","s","t","a","n","l","e","y">>, <<"M","S">>>>,
       <<<<"b","a","n","k"," ","o","f"," ","a","m","e","r","i","c","a">>, <<"B","A","C">>>>,
       <<<<"w","e","l","l","s"," ","f","a","r","g","o">>, <<"W","F","C">>>>,
       <<<<"w","a","l","m","a","r","t">>, <<"W","M","T">>>>,
       <<<<"t","a","r","g","e","t">>, <<"T","G","T">>>>,
       <<<<"c","o","s","t","c","o">>, <<"C","O","S","T">>>>,
       <<<<"m","c","d","o","n","a","l","d">>, <<"M","C","D">>>>,
       <<<<"c","o","c","a"," ","c","o","l","a">>, <<"K","O">>>>,
       <<<<"p","e","p","s","i">>, <<"P","E","P">>>>,
       <<<<"e","x","x","o","n">>, <<"X","O","M">>>>,
       <<<<"c","h","e","v","r","o","n">>, <<"C","V","X">>>>,
       <<<<"s","h","e","l","l">>, <<"S","H","E","L">>>>,
       <<<<"p","f","i","z","e","r">>, <<"P","F","E">>>>,
       <<<<"m","o","d","e","r","n","a">>, <<"M","R","N","A">>>>,
       <<<<"j","o","h","n","s","o","n">>, <<"J","N","J">>>>,
       <<<<"m","e","r","c","k">>, <<"M","R","K">>>>,
       <<<<"a","t","&","t">>, <<"T">>>>,
       <<<<"v","e","r","i","z","o","n">>, <<"V","Z">>>>
    >>

NAME(i) == COMPANY_SYMBOLS[i][1]
TICKER(i) == COMPANY_SYMBOLS[i][2]
Entries == 1..Len(COMPANY_SYMBOLS)

-----------------------------------------------------------------------------
(* _get_symbol, api.py:68-93 *)

\* for ticker in COMPANY_SYMBOLS.values(): if ticker.lower() == query_lower: return ticker
RECURSIVE TickerLoop(_, _)
TickerLoop(query_lower, i) ==
    IF i > Len(COMPANY_SYMBOLS) THEN PyNone
    ELSE IF Lower(TICKER(i)) = query_lower THEN PyStr(TICKER(i))
    ELSE TickerLoop(query_lower, i + 1)

\* variant of NameLoop that walks the table from its last entry
RECURSIVE NameLoop_Reversed(_, _)
NameLoop_Reversed(query_lower, i) ==
    IF i > Len(COMPANY_SYMBOLS) THEN PyNone
    ELSE IF Contains(query_lower, NAME(Len(COMPANY_SYMBOLS) + 1 - i))
         THEN PyStr(TICKER(Len(COMPANY_SYMBOLS) + 1 - i))
    ELSE NameLoop_Reversed(query_lower, i + 1)

\* for name, ticker in COMPANY_SYMBOLS.items(): if name in query_lower: return ticker
RECURSIVE NameLoop(_, _)
NameLoop(query_lower, i) ==
    IF i > Len(COMPANY_SYMBOLS) THEN PyNone
    ELSE IF Contains(query_lower, NAME(i)) THEN PyStr(TICKER(i))
    ELSE NameLoop(query_lower, i + 1)

\* variant of Normalize that forgets strip()
Normalize_NoStrip(s) == Lower(s)

\* query_lower = query.lower().strip()
Normalize(s) == Strip(Lower(s))

get_symbol(query) ==
    IF ~Truthy(query) \/ ~IsStr(query) THEN PyNone
    ELSE LET query_lower == Normalize(query.s)
             exact == TickerLoop(query_lower, 1)
         IN  IF exact # PyNone THEN exact ELSE NameLoop(query_lower, 1)

-----------------------------------------------------------------------------
(* Numbers: float(...) and the format spec :.2f *)

Digits == <<"0","1","2","3","4","5","6","7","8","9">>
IsDigit(c) == \E i \in 1..Len(Digits) : Digits[i] = c
DigitVal(c) == (CHOOSE i \in 1..Len(Digits) : Digits[i] = c) - 1

RECURSIVE ToNat(_)
ToNat(s) == IF s = <<>> THEN 0 ELSE ToNat(SubSeq(s, 1, Len(s) - 1)) * 10 + DigitVal(s[Len(s)])

RECURSIVE NatToStr(_)
NatToStr(n) == IF n < 10 THEN <<Digits[n + 1]>> ELSE NatToStr(n \div 10) \o <<Digits[(n % 10) + 1]>>

RECURSIVE Pow10(_)
Pow10(k) == IF k = 0 THEN 1 ELSE 10 * Pow10(k - 1)

Unsigned(s) == IF s # <<>> /\ s[1] \in {"+", "-"} THEN Tail(s) ELSE s
DotAt(s) == {i \in 1..Len(s) : s[i] = "."}
WithoutDot(s) == SelectSeq(s, IsDigit)

\* The decimal literals float() accepts: optional surrounding whitespace, an
\* optional sign, digits with at most one point and at least one digit.
\* (Exponents, "inf", "nan" and digit-group underscores are left out of the
\* modelled inputs.)
IsDecimal(s) ==
    LET u == Unsigned(Strip(s))
    IN  /\ \A i \in 1..Len(u) : IsDigit(u[i]) \/ u[i] = "."
        /\ Cardinality(DotAt(u)) <= 1
        /\ WithoutDot(u) # <<>>

\* The value of a decimal literal as n / 10^k with its sign.
DecimalValue(s) ==
    LET t == Strip(s)
        u == Unsigned(t)
        k == IF DotAt(u) = {} THEN 0 ELSE Len(u) - (CHOOSE i \in DotAt(u) : TRUE)
    IN  [neg |-> t[1] = "-", n |-> ToNat(WithoutDot(u)), k |-> k]

\* float(v): an outcome [ok, val] or [ok, exc, err]
Float(v) ==
    CASE v.t = "str"  -> IF IsDecimal(v.s) THEN [ok |-> TRUE, val |-> DecimalValue(v.s)]
                         ELSE [ok |-> FALSE, exc |-> "ValueError", err |-> v.s]
      [] v.t = "int"  -> [ok |-> TRUE, val |-> [neg |-> v.n < 0, n |-> IF v.n < 0 THEN -v.n ELSE v.n, k |-> 0]]
      [] v.t = "bool" -> [ok |-> TRUE, val |-> [neg |-> FALSE, n |-> IF v.b THEN 1 ELSE 0, k |-> 0]]
      [] OTHER        -> [ok |-> FALSE, exc |-> "TypeError", err |-> <<>>]

\* Hundredths of n / 10^k, rounded to nearest, ties to even.
Cents(n, k) ==
    IF k <= 2 THEN n * Pow10(2 - k)
    ELSE LET d == Pow10(k - 2)
             q == n \div d
             r == n % d
         IN  IF 2 * r > d \/ (2 * r = d /\ q % 2 = 1) THEN q + 1 ELSE q

\* f"{price:.2f}"
Format2f(val) ==
    LET c == Cents(val.n, val.k)
    IN  (IF val.neg THEN <<"-">> ELSE <<>>)
        \o NatToStr(c \div 100) \o <<".">> \o <<Digits[((c \div 10) % 10) + 1], Digits[(c % 10) + 1]>>

\* f"{v}" for the scalar values the modelled replies carry
PyFormat(v) ==
    CASE v.t = "str"  -> v.s
      [] v.t = "none" -> <<"N","o","n","e">>
      [] v.t = "bool" -> IF v.b THEN <<"T","r","u","e">> ELSE <<"F","a","l","s","e">>
      [] v.t = "int"  -> IF v.n < 0 THEN <<"-">> \o NatToStr(-v.n) ELSE NatToStr(v.n)

\* s.rstrip("%")
RECURSIVE RStripPercent(_)
RStripPercent(s) == IF s # <<>> /\ s[Len(s)] = "%" THEN RStripPercent(SubSeq(s, 1, Len(s) - 1)) ELSE s

\* s.startswith("-")
StartsWithMinus(s) == s # <<>> /\ s[1] = "-"

-----------------------------------------------------------------------------
(* The reply of the provider as get_stock_price sees it *)

K_ErrorMessage == <<"E","r","r","o","r"," ","M","e","s","s","a","g","e">>
K_GlobalQuote == <<"G","l","o","b","a","l"," ","Q","u","o","t","e">>
K_Price == <<"0","5","."," ","p","r","i","c","e">>
K_Change == <<"0","9","."," ","c","h","a","n","g","e">>
K_ChangePercent == <<"1","0","."," ","c","h","a","n","g","e"," ","p","e","r","c","e","n","t">>
S_NA == <<"N","/","A">>
S_Prefix == <<"p","r","i","c","e","_">>

EmptyDict == [k \in {} |-> PyNone]

\* dict.get(key, default)
DictGet(d, key, default) == IF key \in DOMAIN d THEN d[key] ELSE default

\* `key in v` for a str key: TypeError unless v is a str, a list or a dict
SupportsIn(v) == v.t \in {"str", "list", "dict"}
In(key, v) ==
    CASE v.t = "str"  -> Contains(v.s, key)
      [] v.t = "list" -> \E i \in 1..Len(v.l) : v.l[i] = PyStr(key)
      [] v.t = "dict" -> key \in DOMAIN v.d

\* exception classes of requests.exceptions caught at api.py:154-157
IsTimeout(exc) == exc \in {"ConnectTimeout", "ReadTimeout"}
IsRequestException(exc) == IsTimeout(exc) \/ exc \in {"ConnectionError", "HTTPError", "InvalidJSONError"}
IsKeyOrValueError(exc) == exc \in {"KeyError", "ValueError"}

-----------------------------------------------------------------------------
(* get_stock_price, api.py:96-159 *)

\* variant of Returned that also writes the message to the cache
Returned_Storing(value) == [status |-> "returned", value |-> value, store |-> TRUE]

\* return <message> inside the try statement, api.py:136, 140, 155-159
Returned(value) == [status |-> "returned", value |-> value, store |-> FALSE]
Stored(value)   == [status |-> "returned", value |-> value, store |-> TRUE]
Raised(exc)     == [status |-> "raised", value |-> [exc |-> exc], store |-> FALSE]

MsgInvalidQuery == [msg |-> "Invalid query. Please provide a company name or stock ticker."]
MsgNotConfigured == [msg |-> "Alpha Vantage API key not configured. Please set ALPHAVANTAGE_API_KEY in .env"]
MsgNotFound(query) == [msg |-> "Could not identify stock for '{query}'. Try: AAPL, MSFT, GOOGL, or company names like Apple, Microsoft", query |-> query]
MsgApiError(text) == [msg |-> "API Error: {data['Error Message']}", error |-> text]
MsgNoData(symbol) == [msg |-> "Could not retrieve stock data for {symbol}. Please try again.", symbol |-> symbol]
MsgTimeout == [msg |-> "Request timeout - Alpha Vantage server is slow, please try again."]
MsgNetwork(err) == [msg |-> "Network error: {str(e)}", err |-> err]
MsgParse(err) == [msg |-> "Error parsing data: {str(e)}", err |-> err]
MsgPrice(emoji, symbol, price, change, change_percent) ==
    [msg |-> "{emoji} {symbol} is trading at ${price:.2f}, change: {change} ({change_percent}%)",
     emoji |-> emoji, symbol |-> symbol, price |-> price, change |-> change, change_percent |-> change_percent]

IsPriceResult(value) == "emoji" \in DOMAIN value

\* api.py:142-152, from float(quote["05. price"]) to the result
FormatQuote(symbol, quote) ==
    LET price == Float(quote.d[K_Price])
        change == DictGet(quote.d, K_Change, PyStr(S_NA))
        raw_percent == DictGet(quote.d, K_ChangePercent, PyStr(S_NA))
    IN  IF ~price.ok THEN [raise |-> price.exc, err |-> price.err]
        ELSE IF ~IsStr(raw_percent) THEN [raise |-> "AttributeError", err |-> <<>>]
        ELSE LET change_percent == RStripPercent(raw_percent.s)
                 emoji == IF ~StartsWithMinus(change_percent) THEN "chart-up" ELSE "chart-down"
             IN  [raise |-> "", result |-> MsgPrice(emoji, symbol, Format2f(price.val), PyFormat(change), change_percent)]

\* api.py:132-152, the body of the try block once response.json() has returned data:
\* what it returns, or the exception it throws
ReadData(symbol, data) ==
    IF ~SupportsIn(data) THEN [raise |-> "TypeError", err |-> <<>>]
    ELSE IF In(K_ErrorMessage, data)
    THEN IF data.t = "dict" THEN [raise |-> "", result |-> MsgApiError(PyFormat(data.d[K_ErrorMessage])), ok |-> FALSE]
         ELSE [raise |-> "TypeError", err |-> <<>>]
    ELSE IF data.t # "dict" THEN [raise |-> "AttributeError", err |-> <<>>]
    ELSE LET quote == DictGet(data.d, K_GlobalQuote, PyDict(EmptyDict))
         IN  IF ~Truthy(quote) THEN [raise |-> "", result |-> MsgNoData(symbol), ok |-> FALSE]
             ELSE IF ~SupportsIn(quote) THEN [raise |-> "TypeError", err |-> <<>>]
             ELSE IF ~In(K_Price, quote) THEN [raise |-> "", result |-> MsgNoData(symbol), ok |-> FALSE]
             ELSE IF quote.t # "dict" THEN [raise |-> "TypeError", err |-> <<>>]
             ELSE LET f == FormatQuote(symbol, quote)
                  IN  IF f.raise = "" THEN [raise |-> "", result |-> f.result, ok |-> TRUE] ELSE f

\* variant of Handle that also caches the message of a caught exception
Handle_Storing(exc, err) ==
    IF IsTimeout(exc) THEN Stored(MsgTimeout)
    ELSE IF IsRequestException(exc) THEN Stored(MsgNetwork(err))
    ELSE IF IsKeyOrValueError(exc) THEN Stored(MsgParse(err))
    ELSE Raised(exc)

\* api.py:154-159, the except clauses: the message for a caught exception,
\* or the exception itself when no clause matches
Handle(exc, err) ==
    IF IsTimeout(exc) THEN Returned(MsgTimeout)
    ELSE IF IsRequestException(exc) THEN Returned(MsgNetwork(err))
    ELSE IF IsKeyOrValueError(exc) THEN Returned(MsgParse(err))
    ELSE Raised(exc)

\* api.py:127-159, the try statement: requests.get, raise_for_status and json()
\* either throw (response.kind = "raise") or hand over the decoded body
TryRequest(symbol, response) ==
    IF response.kind = "raise" THEN Handle(response.exc, response.err)
    ELSE LET r == ReadData(symbol, response.data)
         IN  IF r.raise # "" THEN Handle(r.raise, r.err)
             ELSE IF r.ok THEN Stored(r.result)
             ELSE Returned(r.result)

\* variant of CacheKey that omits lower()
CacheKey_Raw(query) == S_Prefix \o query.s

\* variant of CacheKey that keys by the resolved ticker
CacheKey_BySymbol(query) ==
    IF Truthy(get_symbol(query)) THEN S_Prefix \o Lower(get_symbol(query).s) ELSE S_Prefix \o Lower(query.s)

\* cache_key = f"price_{query.lower()}"
CacheKey(query) == S_Prefix \o Lower(query.s)

CACHE_DURATION == 60

\* variant of Fresh with timedelta(seconds=60)
Fresh_Seconds(cached_time, t) == t - cached_time < 1

\* variant of Fresh that still serves an entry aged exactly CACHE_DURATION
Fresh_Inclusive(cached_time, t) == t - cached_time <= CACHE_DURATION

\* datetime.now() - cached_time < CACHE_DURATION
Fresh(cached_time, t) == t - cached_time < CACHE_DURATION

\* variant of CacheHit with the comparison turned round: serves only stale entries
CacheHit_Inverted(cache, cache_key, t) == cache_key \in DOMAIN cache /\ ~Fresh(cache[cache_key][2], t)

\* cache_key in API_CALL_CACHE and the entry is fresh (api.py:114-116)
CacheHit(cache, cache_key, t) == cache_key \in DOMAIN cache /\ Fresh(cache[cache_key][2], t)

\* variant of CachePut that keeps an entry the key already has (setdefault)
CachePut_KeepExisting(cache, cache_key, result, t) ==
    [k \in DOMAIN cache \cup {cache_key} |-> IF k \in DOMAIN cache THEN cache[k] ELSE <<result, t>>]

\* API_CALL_CACHE[cache_key] = (result, datetime.now())
CachePut(cache, cache_key, result, t) ==
    [k \in DOMAIN cache \cup {cache_key} |-> IF k = cache_key THEN <<result, t>> ELSE cache[k]]

\* if not query or not isinstance(query, str)
InvalidQuery(query) == ~Truthy(query) \/ ~IsStr(query)

\* variant of NotConfigured that only tests for None
NotConfigured_NoneOnly(api_key) == api_key = PyNone

\* if not ALPHAVANTAGE_API_KEY
NotConfigured(api_key) == ~Truthy(api_key)

\* One call: how it ends, the cache it leaves, the requests it issued and the
\* stages it went through.
get_stock_price(query, api_key, cache, t, response) ==
    IF InvalidQuery(query)
    THEN [status |-> "returned", value |-> MsgInvalidQuery, cache |-> cache, requests |-> 0,
          steps |-> <<"validate">>]
    ELSE IF NotConfigured(api_key)
    THEN [status |-> "returned", value |-> MsgNotConfigured, cache |-> cache, requests |-> 0,
          steps |-> <<"validate", "credential">>]
    ELSE IF CacheHit(cache, CacheKey(query), t)
    THEN [status |-> "returned", value |-> cache[CacheKey(query)][1], cache |-> cache, requests |-> 0,
          steps |-> <<"validate", "credential", "cache">>]
    ELSE LET symbol == get_symbol(query)
         IN  IF ~Truthy(symbol)
             THEN [status |-> "returned", value |-> MsgNotFound(query.s), cache |-> cache, requests |-> 0,
                   steps |-> <<"validate", "credential", "cache", "resolve">>]
             ELSE LET out == TryRequest(symbol.s, response)
                  IN  [status |-> out.status, value |-> out.value,
                       cache |-> IF out.store THEN CachePut(cache, CacheKey(query), out.value, t) ELSE cache,
                       requests |-> 1,
                       steps |-> <<"validate", "credential", "cache", "resolve", "request">>
                                 \o (IF out.store THEN <<"store">> ELSE <<>>)]

\* variant of clear_cache that leaves the entries in place
clear_cache_Noop(cache) == cache

\* def clear_cache(): API_CALL_CACHE.clear()
clear_cache(cache) == EmptyDict

-----------------------------------------------------------------------------
(* Inputs *)

Q_Apple == PyStr(<<"A","p","p","l","e">>)
Q_AAPL == PyStr(<<"A","A","P","L">>)
Q_aapl == PyStr(<<"a","a","p","l">>)
Q_AAPL_space == PyStr(<<"A","A","P","L"," ">>)
Q_unknown == PyStr(<<"x","y","z","-","n","o","t","-","a","-","c","o","m","p","a","n","y">>)
Q_blank == PyStr(<<" ", " ">>)
Q_empty == PyStr(<<>>)

\* the queries of the cache runs: two that resolve to AAPL under two keys,
\* one that does not resolve and one that is no string
Queries == {Q_Apple, Q_AAPL, Q_unknown, PyNone}

\* the queries of the single-call runs
AllQueries ==
    Queries \cup {Q_aapl, Q_AAPL_space, Q_blank, Q_empty, PyInt(0), PyInt(5), PyBool(TRUE), PyList(<<>>),
                  PyList(<<Q_AAPL>>)}

K_demo == PyStr(<<"d","e","m","o">>)
ApiKeys == {PyNone, K_demo}
AllApiKeys == ApiKeys \cup {PyStr(<<>>)}

Json(data) == [kind |-> "json", data |-> data]
Throws(exc, err) == [kind |-> "raise", exc |-> exc, err |-> err]

GlobalQuote(quote) == PyDict((K_GlobalQuote :> quote))
Fields(price, change, change_percent) ==
    PyDict((K_Price :> price) @@ (K_Change :> change) @@ (K_ChangePercent :> change_percent))
Quote(price, change, change_percent) == GlobalQuote(Fields(price, change, change_percent))

P_150 == PyStr(<<"1","5","0",".","2","5">>)
C_120 == PyStr(<<"1",".","2","0">>)
Pct_080 == PyStr(<<"0",".","8","0","%">>)

R_Up == Json(Quote(P_150, C_120, Pct_080))
R_Down == Json(Quote(PyStr(<<"1","4","9",".","5">>), PyStr(<<"-","0",".","7","5">>), PyStr(<<"-","0",".","5","0","%">>)))
R_Timeout == Throws("ReadTimeout", <<"r","e","a","d"," ","t","i","m","e","d"," ","o","u","t">>)
R_List == Json(PyList(<<>>))

\* the replies of the cache runs: two quotes, a failure and a body that is no object
Responses == {R_Up, R_Down, R_Timeout, R_List}

\* what requests.get, raise_for_status and json() can throw
Thrown ==
    {R_Timeout,
     Throws("ConnectTimeout", <<"c","o","n","n","e","c","t"," ","t","i","m","e","d"," ","o","u","t">>),
     Throws("ConnectionError", <<"c","o","n","n","e","c","t","i","o","n"," ","r","e","f","u","s","e","d">>),
     Throws("HTTPError", <<"5","0","0"," ","S","e","r","v","e","r"," ","E","r","r","o","r">>),
     Throws("InvalidJSONError", <<"E","x","p","e","c","t","i","n","g"," ","v","a","l","u","e",":"," ","l","i","n","e"," ","1"," ","c","o","l","u","m","n"," ","1"," ","(","c","h","a","r"," ","0",")">>),
     Throws("ValueError", <<"E","x","p","e","c","t","i","n","g"," ","v","a","l","u","e",":"," ","l","i","n","e"," ","1"," ","c","o","l","u","m","n"," ","1"," ","(","c","h","a","r"," ","0",")">>)}

\* decoded bodies that are no quote
Bodies ==
    {PyNone, PyInt(7), PyBool(TRUE), PyStr(<<"o", "k">>), PyStr(<<"!">> \o K_ErrorMessage),
     PyList(<<>>), PyList(<<PyStr(K_ErrorMessage)>>),
     PyDict(EmptyDict),
     PyDict((K_ErrorMessage :> PyStr(<<"I","n","v","a","l","i","d"," ","A","P","I"," ","c","a","l","l",".">>))),
     PyDict((K_ErrorMessage :> PyNone)),
     GlobalQuote(PyNone), GlobalQuote(PyStr(<<>>)), GlobalQuote(PyInt(0)), GlobalQuote(PyInt(5)),
     GlobalQuote(PyBool(TRUE)), GlobalQuote(PyList(<<>>)), GlobalQuote(PyList(<<PyStr(K_Price)>>)),
     GlobalQuote(PyList(<<PyStr(K_Change)>>)), GlobalQuote(PyStr(K_Price)), GlobalQuote(PyStr(K_Change)),
     GlobalQuote(PyDict(EmptyDict)), GlobalQuote(PyDict((K_Change :> C_120)))}

\* quotes that carry a price field
Prices ==
    {P_150, PyStr(<<" ","1","5","0",".","2","5","6"," ">>), PyStr(<<"-","3">>), PyStr(<<"a","b","c">>), PyStr(<<>>), PyNone, PyInt(150),
     PyBool(TRUE), PyList(<<>>)}
Percents == {Pct_080, PyStr(<<"-","0",".","5","0","%">>), PyNone, PyInt(1)}
Quotes ==
    {Quote(p, C_120, c) : p \in Prices, c \in Percents}
    \cup {GlobalQuote(PyDict((K_Price :> P_150))),
          Quote(P_150, PyNone, Pct_080), Quote(P_150, PyInt(-2), Pct_080)}

AllResponses == Responses \cup Thrown \cup {Json(b) : b \in Bodies \cup Quotes}

TickSteps == {59, 60}
MaxTime == 119

-----------------------------------------------------------------------------
(* State machine *)

NoCall == [op |-> "none", query |-> PyNone, status |-> "none", value |-> [msg |-> ""],
           requests |-> 0, steps |-> <<>>]

\* memory.py:7 conversation_memory = [], no coroutine started, no call in flight
RestInit ==
    /\ conversation_memory = <<>>
    /\ appended = <<>>
    /\ pending = {}
    /\ threads = {}

Init ==
    /\ now = 0
    /\ ALPHAVANTAGE_API_KEY \in ApiKeys
    /\ API_CALL_CACHE = EmptyDict
    /\ last = NoCall
    /\ arg = PyNone
    /\ observed = EmptyDict
    /\ served = EmptyDict
    /\ cleared = {}
    /\ RestInit

IsSuccess(out) == out.status = "returned" /\ IsPriceResult(out.value)

\* a call get_stock_price(query), answered by `response` if it reaches the network
Call(query, response) ==
    \E out \in {get_stock_price(query, ALPHAVANTAGE_API_KEY, API_CALL_CACHE, now, response)} :
    \E fetched \in {out.requests = 1 /\ IsSuccess(out)} :
        /\ API_CALL_CACHE' = out.cache
        /\ last' = [op |-> "get_stock_price", query |-> query, status |-> out.status,
                    value |-> out.value, requests |-> out.requests, steps |-> out.steps]
        /\ observed' = IF fetched THEN CachePut(observed, S_Prefix \o Lower(query.s), out.value, now)
                       ELSE observed
        /\ served' = IF IsSuccess(out) THEN CachePut(served, query, out.value, now) ELSE served
        /\ cleared' = IF fetched THEN cleared \ {S_Prefix \o Lower(query.s)} ELSE cleared
        /\ UNCHANGED <<now, ALPHAVANTAGE_API_KEY, arg>>
        /\ UNCHANGED restVars

\* the call reaches requests.get only past the checks, the cache and the resolver
Requests(query) ==
    get_stock_price(query, ALPHAVANTAGE_API_KEY, API_CALL_CACHE, now, R_Timeout).requests = 1

GetStockPriceOver(Q, R) ==
    \E query \in Q :
        IF Requests(query)
        THEN \E response \in R : Call(query, response)
        ELSE Call(query, R_Timeout)

GetStockPrice == GetStockPriceOver(Queries, Responses)

ClearCache ==
    /\ API_CALL_CACHE' = clear_cache(API_CALL_CACHE)
    /\ last' = [NoCall EXCEPT !.op = "clear_cache", !.status = "returned"]
    /\ cleared' = cleared \cup DOMAIN observed
    /\ observed' = EmptyDict
    /\ served' = EmptyDict
    /\ UNCHANGED <<now, ALPHAVANTAGE_API_KEY, arg>>
    /\ UNCHANGED restVars

\* time passes between calls
Tick ==
    \E d \in TickSteps :
        /\ now + d <= MaxTime
        /\ now' = now + d
        /\ UNCHANGED <<ALPHAVANTAGE_API_KEY, API_CALL_CACHE, last, arg, observed, served, cleared>>
        /\ UNCHANGED restVars

\* the host rebinds the module global (another .env, a test patching it)
SetApiKey ==
    \E k \in ApiKeys :
        /\ k # ALPHAVANTAGE_API_KEY
        /\ ALPHAVANTAGE_API_KEY' = k
        /\ UNCHANGED <<now, API_CALL_CACHE, last, arg, observed, served, cleared>>
        /\ UNCHANGED restVars

Next == GetStockPrice \/ ClearCache \/ Tick \/ SetApiKey

Spec == Init /\ [][Next]_vars

-----------------------------------------------------------------------------
(* Single calls: one get_stock_price over every query and every reply, from *)
(* the states the cache runs pass through after at most one fetch           *)

SeedQueries == {Q_Apple, Q_AAPL, Q_AAPL_space, PyNone}
Waits == {0, 59, 60}

InitFetch ==
    \E q0 \in SeedQueries, r0 \in {R_Up, R_Down} :
    \E out \in {get_stock_price(q0, K_demo, EmptyDict, 0, r0)} :
        /\ API_CALL_CACHE = out.cache
        /\ observed = IF IsSuccess(out) THEN CachePut(EmptyDict, S_Prefix \o Lower(q0.s), out.value, 0)
                      ELSE EmptyDict
        /\ served = IF IsSuccess(out) THEN CachePut(EmptyDict, q0, out.value, 0) ELSE EmptyDict
        /\ now \in Waits
        /\ ALPHAVANTAGE_API_KEY \in AllApiKeys
        /\ last = NoCall
        /\ arg = PyNone
        /\ cleared = {}
        /\ RestInit

OneCall == last.op = "none" /\ GetStockPriceOver(AllQueries, AllResponses)

NextFetch == OneCall

SpecFetch == InitFetch /\ [][NextFetch]_vars

-----------------------------------------------------------------------------
(* Resolver runs: one _get_symbol call on a drawn argument *)

RECURSIVE Spellings(_)
\* every upper/lower-case spelling of a text
Spellings(s) ==
    IF s = <<>> THEN {<<>>}
    ELSE {<<c>> \o r : c \in {ToLower(Head(s)), ToUpper(Head(s))}, r \in Spellings(Tail(s))}

Pads == {<<>>, <<" ">>, <<"\t", "\n">>}
Padded(S) == {l \o s \o r : l \in Pads, s \in S, r \in Pads}

\* ticker i in any letter case with surrounding whitespace
TickerInputs == [i \in Entries |-> Padded(Spellings(TICKER(i)))]

Phrases ==
    {<<"i"," ","l","i","k","e"," ","a","p","p","l","e"," ","p","i","e">>, <<"a","p","p","l","e"," ","a","m","a","z","o","n">>, <<"a","m","a","z","o","n"," ","a","p","p","l","e">>, <<"p","i","n","e","a","p","p","l","e">>, <<"m","e","t","a","d","a","t","a">>,
     <<"f","o","r","m","a","t","&","t">>, <<"s","m","a","r","t">>, <<"M","i","c","r","o","s","o","f","t"," ","C","o","r","p">>, <<" "," ","G","O","O","G","L","E"," ">>, <<"B","a","n","k"," ","o","f"," ","A","m","e","r","i","c","a">>, <<"b","a","n","k"," ","o","f"," "," ","a","m","e","r","i","c","a">>,
     <<"c","o","c","a","-","c","o","l","a">>, <<"J","P"," ","M","o","r","g","a","n"," ","S","t","a","n","l","e","y">>, <<"j","p","m","o","r","g","a","n"," ","s","t","a","n","l","e","y">>, <<"w","a","l","m","a","r","t"," ","v","s"," ","t","a","r","g","e","t">>, <<"A"," ","A","P","L">>,
     <<"A","A","P","L",".">>, <<"x","y","z","-","n","o","t","-","a","-","c","o","m","p","a","n","y">>, <<"T">>, <<"a","t"," ","a","n","d"," ","t">>, <<" ", " ">>, <<>>}

SymInputs ==
    {PyStr(NAME(i)) : i \in Entries}
    \cup {PyStr(s) : s \in UNION {TickerInputs[i] : i \in Entries}}
    \cup {PyStr(s) : s \in Phrases}
    \cup {PyNone, PyInt(0), PyInt(5), PyBool(TRUE), PyList(<<>>), PyList(<<Q_AAPL>>)}

InitSym ==
    /\ arg \in SymInputs
    /\ now = 0
    /\ ALPHAVANTAGE_API_KEY = PyNone
    /\ API_CALL_CACHE = EmptyDict
    /\ last = NoCall
    /\ observed = EmptyDict
    /\ served = EmptyDict
    /\ cleared = {}
    /\ RestInit

GetSymbol ==
    /\ last.op = "none"
    /\ last' = [NoCall EXCEPT !.op = "_get_symbol", !.query = arg, !.status = "returned",
                              !.value = get_symbol(arg)]
    /\ UNCHANGED <<now, ALPHAVANTAGE_API_KEY, API_CALL_CACHE, arg, observed, served, cleared>>
    /\ UNCHANGED restVars

NextSym == GetSymbol

SpecSym == InitSym /\ [][NextSym]_vars

-----------------------------------------------------------------------------
(* Properties of the resolver (SpecSym) *)

SymCalled == last.op = "_get_symbol"

\* the table itself: no name contains an earlier name of another ticker, no
\* name is the lower-cased ticker of another entry or contained in it, and
\* tickers that agree up to letter case are the same ticker
TableUnambiguous ==
    \A i, j \in Entries :
        /\ (i < j /\ TICKER(i) # TICKER(j)) => ~Contains(NAME(j), NAME(i))
        /\ TICKER(i) # TICKER(j) => /\ Lower(TICKER(i)) # Lower(TICKER(j))
                                    /\ NAME(i) # Lower(TICKER(j))

\* C9: for every entry (name A, ticker T) of COMPANY_SYMBOLS, _get_symbol(A)
\* returns T, and _get_symbol of T in any letter case with surrounding
\* whitespace returns T; the table order and the ticker strings do not collide.
C9_TableEntriesResolve ==
    /\ TableUnambiguous
    /\ SymCalled =>
         \A i \in Entries :
            (\/ last.query = PyStr(NAME(i))
             \/ (last.query.t = "str" /\ last.query.s \in TickerInputs[i]))
            => last.value = PyStr(TICKER(i))

C9_Witness ==
    /\ SymCalled
    /\ last.query = PyStr(<<" ","g","O","o","G","l">> \o <<"\t", "\n">>)
    /\ last.value = PyStr(<<"G","O","O","G","L">>)

Min(S) == CHOOSE x \in S : \A y \in S : x <= y
Max(S) == CHOOSE x \in S : \A y \in S : x >= y

\* trim: the text between the first and the last character that is no whitespace
Trim(s) ==
    LET solid == {i \in 1..Len(s) : s[i] \notin Whitespace}
    IN  IF solid = {} THEN <<>> ELSE SubSeq(s, Min(solid), Max(solid))

\* name occurs in n at some offset
OccursIn(name, n) ==
    \E off \in 0..Len(n) :
        /\ off + Len(name) <= Len(n)
        /\ \A k \in 1..Len(name) : n[off + k] = name[k]

\* the reference of C10
RefSymbol(query) ==
    IF query.t # "str" THEN PyNone
    ELSE IF query.s = <<>> THEN PyNone
    ELSE LET n == Lower(Trim(query.s))
             exact == {i \in Entries : Lower(TICKER(i)) = Lower(n)}
             named == {i \in Entries : OccursIn(NAME(i), n)}
         IN  IF exact # {} THEN PyStr(TICKER(CHOOSE i \in exact : TRUE))
             ELSE IF named # {} THEN PyStr(TICKER(Min(named)))
             ELSE PyNone

\* C10: _get_symbol(query) is not found for an empty or non-string query;
\* otherwise, with n the lower-cased trimmed query, it is the ticker equal to
\* n up to letter case if there is one, else the ticker of the first name in
\* table order that is a substring of n, else not found.
C10_MatchesReference == SymCalled => last.value = RefSymbol(last.query)

C10_Witness ==
    /\ SymCalled
    /\ last.query = PyStr(<<"a","m","a","z","o","n"," ","a","p","p","l","e">>)
    /\ last.value = PyStr(<<"A","A","P","L">>)

-----------------------------------------------------------------------------
(* Properties of get_stock_price and the cache *)

\* a step that is one get_stock_price call; last' is that call
CallStep ==
    /\ last'.op = "get_stock_price"
    /\ now' = now
    /\ ALPHAVANTAGE_API_KEY' = ALPHAVANTAGE_API_KEY

\* a step that is one clear_cache call
ClearStep ==
    /\ last'.op = "clear_cache"
    /\ now' = now
    /\ ALPHAVANTAGE_API_KEY' = ALPHAVANTAGE_API_KEY

PriceCalled == last.op = "get_stock_price"
KeySet == ALPHAVANTAGE_API_KEY.t = "str" /\ ALPHAVANTAGE_API_KEY.s # <<>>
TextQuery(q) == q.t = "str" /\ q.s # <<>>
KeyOf(q) == S_Prefix \o Lower(q.s)
Did(call, step) == \E i \in 1..Len(call.steps) : call.steps[i] = step
GavePrice(call) == call.status = "returned" /\ "emoji" \in DOMAIN call.value
GaveFailure(call) == call.status = "returned" /\ "emoji" \notin DOMAIN call.value
Age(entry) == now - entry[2]

\* C1: get_stock_price never raises: whatever the query, the credential, the
\* cache and the outcome of the HTTP request, the call ends by returning a
\* string.
C1_NeverRaises == PriceCalled => last.status = "returned"

\* C2 as stated: once get_stock_price(q) has returned a price at time t, every
\* later call with the same q at t' with t' - t < 60 minutes, with no
\* clear_cache in between, returns the same string without a request.
C2_SameWithinHourOfSuccess ==
    [][(/\ CallStep
        /\ KeySet
        /\ TextQuery(last'.query)
        /\ last'.query \in DOMAIN served
        /\ now - served[last'.query][2] < 60)
       => (/\ last'.status = "returned"
           /\ last'.value = served[last'.query][1]
           /\ last'.requests = 0)]_vars

\* C2 amended: once a call for q's key has fetched a price over the network
\* and stored it at time t, every later call for that key at t' with
\* t' - t < 60 minutes, with no clear_cache in between and the credential
\* configured, returns the stored string without a request.
C2_SameWithinHourOfFetch ==
    [][(/\ CallStep
        /\ KeySet
        /\ TextQuery(last'.query)
        /\ KeyOf(last'.query) \in DOMAIN observed
        /\ now - observed[KeyOf(last'.query)][2] < 60)
       => (/\ last'.status = "returned"
           /\ last'.value = observed[KeyOf(last'.query)][1]
           /\ last'.requests = 0)]_vars

C2_Witness ==
    /\ PriceCalled
    /\ KeySet
    /\ last.query = Q_AAPL
    /\ last.requests = 0
    /\ GavePrice(last)
    /\ now = 59
    /\ KeyOf(Q_AAPL) \in DOMAIN observed
    /\ observed[KeyOf(Q_AAPL)] = <<last.value, 0>>

\* C3: an entry is served only while now - stored_time < 60 minutes; at 60
\* minutes or more the read is a miss (resolver, then a request), and the
\* stale entry stays in API_CALL_CACHE until a successful fetch for its key
\* overwrites it or clear_cache removes it.
C3_StaleMissesButStays ==
    [][/\ (/\ CallStep
           /\ KeySet
           /\ TextQuery(last'.query)
           /\ KeyOf(last'.query) \in DOMAIN API_CALL_CACHE)
          => IF Age(API_CALL_CACHE[KeyOf(last'.query)]) < CACHE_DURATION
             THEN /\ last'.requests = 0
                  /\ ~Did(last', "resolve")
                  /\ last'.value = API_CALL_CACHE[KeyOf(last'.query)][1]
             ELSE /\ Did(last', "resolve")
                  /\ last'.requests = 1
                  /\ KeyOf(last'.query) \in DOMAIN API_CALL_CACHE'
       /\ \A k \in DOMAIN API_CALL_CACHE :
            /\ k \notin DOMAIN API_CALL_CACHE' => ClearStep
            /\ (k \in DOMAIN API_CALL_CACHE' /\ API_CALL_CACHE'[k] # API_CALL_CACHE[k])
               => (/\ CallStep
                   /\ TextQuery(last'.query)
                   /\ KeyOf(last'.query) = k
                   /\ last'.requests = 1
                   /\ GavePrice(last')
                   /\ API_CALL_CACHE'[k] = <<last'.value, now>>)]_vars

C3_Witness ==
    /\ PriceCalled
    /\ last.query = Q_AAPL
    /\ last.requests = 1
    /\ GaveFailure(last)
    /\ KeyOf(Q_AAPL) \in DOMAIN API_CALL_CACHE
    /\ Age(API_CALL_CACHE[KeyOf(Q_AAPL)]) = 60

\* C4: clear_cache leaves API_CALL_CACHE empty, and the next call for a key
\* that was stored before the clear misses (resolver, then a request) until a
\* successful fetch refills it.
C4_ClearEmpties ==
    [][/\ ClearStep => API_CALL_CACHE' = EmptyDict
       /\ (/\ CallStep
           /\ KeySet
           /\ TextQuery(last'.query)
           /\ KeyOf(last'.query) \in cleared)
          => (/\ Did(last', "resolve")
              /\ last'.requests = 1)]_vars

C4_Witness ==
    /\ PriceCalled
    /\ last.query = Q_Apple
    /\ last.requests = 1
    /\ GaveFailure(last)
    /\ KeyOf(Q_Apple) \in cleared
    /\ API_CALL_CACHE = EmptyDict

\* C5: with no credential, a non-empty text query gets the
\* configuration-missing message whatever the cache holds, without resolver,
\* request or cache change; an empty or non-text query gets the invalid-input
\* message before the credential is looked at.
C5_NotConfiguredFirst ==
    [][CallStep =>
        /\ ~TextQuery(last'.query)
           => (/\ last'.status = "returned"
               /\ last'.value = MsgInvalidQuery
               /\ last'.steps = <<"validate">>
               /\ API_CALL_CACHE' = API_CALL_CACHE)
        /\ (TextQuery(last'.query) /\ ~KeySet)
           => (/\ last'.status = "returned"
               /\ last'.value = MsgNotConfigured
               /\ last'.requests = 0
               /\ ~Did(last', "cache")
               /\ ~Did(last', "resolve")
               /\ API_CALL_CACHE' = API_CALL_CACHE)]_vars

C5_Witness ==
    /\ PriceCalled
    /\ last.query = Q_Apple
    /\ last.value = MsgNotConfigured
    /\ ALPHAVANTAGE_API_KEY = PyStr(<<>>)
    /\ KeyOf(Q_Apple) \in DOMAIN API_CALL_CACHE
    /\ now = 0

\* C6: a call that completes a successful fetch returns exactly the string it
\* stores under "price_" + lowercase(q), stamped with the current time, in
\* place of any previous entry; no other key is created or changed.
C6_StoresWhatItReturns ==
    [][(CallStep /\ last'.requests = 1 /\ GavePrice(last'))
       => (/\ DOMAIN API_CALL_CACHE' = DOMAIN API_CALL_CACHE \cup {KeyOf(last'.query)}
           /\ API_CALL_CACHE'[KeyOf(last'.query)] = <<last'.value, now>>
           /\ \A k \in DOMAIN API_CALL_CACHE \ {KeyOf(last'.query)} :
                API_CALL_CACHE'[k] = API_CALL_CACHE[k])]_vars

C6_Witness ==
    /\ PriceCalled
    /\ last.query = Q_aapl
    /\ last.requests = 1
    /\ GavePrice(last)
    /\ now = 60
    /\ Q_AAPL \in DOMAIN served
    /\ served[Q_AAPL][1] # last.value
    /\ DOMAIN API_CALL_CACHE = {KeyOf(Q_AAPL)}
    /\ API_CALL_CACHE[KeyOf(Q_AAPL)] = <<last.value, 60>>

\* C7: a call that ends in a failure message leaves API_CALL_CACHE exactly as
\* it was, a stale entry for the same key included.
C7_FailureKeepsCache ==
    [][(CallStep /\ GaveFailure(last')) => API_CALL_CACHE' = API_CALL_CACHE]_vars

C7_Witness ==
    /\ PriceCalled
    /\ last.query = Q_AAPL
    /\ last.requests = 1
    /\ last.value = MsgParse(<<"a","b","c">>)
    /\ KeyOf(Q_AAPL) \in DOMAIN API_CALL_CACHE
    /\ Age(API_CALL_CACHE[KeyOf(Q_AAPL)]) = 60

\* C8: the cache is keyed by the lower-cased query text, not by the ticker:
\* after a fetch for q1, a call for q2 that resolves to the same ticker under
\* a different lower-cased text, and has no entry of its own, misses and
\* issues its own request; its result is stored beside q1's entry.
C8_KeyedByText ==
    [][(/\ CallStep
        /\ KeySet
        /\ TextQuery(last'.query)
        /\ KeyOf(last'.query) \notin DOMAIN observed
        /\ \E k1 \in DOMAIN observed : PyStr(observed[k1][1].symbol) = RefSymbol(last'.query))
       => (/\ last'.requests = 1
           /\ GavePrice(last')
              => (/\ DOMAIN API_CALL_CACHE' = DOMAIN observed \cup {KeyOf(last'.query)}
                  /\ API_CALL_CACHE'[KeyOf(last'.query)] = <<last'.value, now>>
                  /\ \A k1 \in DOMAIN observed : API_CALL_CACHE'[k1] = observed[k1]))]_vars

C8_Witness ==
    /\ PriceCalled
    /\ last.query = Q_AAPL_space
    /\ last.requests = 1
    /\ GavePrice(last)
    /\ DOMAIN API_CALL_CACHE = {KeyOf(Q_AAPL), KeyOf(Q_AAPL_space)}
    /\ API_CALL_CACHE[KeyOf(Q_AAPL)][1].symbol = API_CALL_CACHE[KeyOf(Q_AAPL_space)][1].symbol

-----------------------------------------------------------------------------
(* memory.py: the conversation memory *)

MAX_MEMORY == 10

\* variant of InvalidMessage that forgets the emptiness test
InvalidMessage_TypeOnly(message) == ~IsStr(message)

\* if not message or not isinstance(message, str), memory.py:24 and 26
InvalidMessage(message) == ~Truthy(message) \/ ~IsStr(message)

\* variant of LastMax that keeps the oldest pairs: memory[:MAX_MEMORY]
LastMax_Oldest(memory) ==
    IF Len(memory) > MAX_MEMORY THEN SubSeq(memory, 1, MAX_MEMORY) ELSE memory

\* the slice memory[-MAX_MEMORY:]
LastMax(memory) ==
    IF Len(memory) > MAX_MEMORY THEN SubSeq(memory, Len(memory) - MAX_MEMORY + 1, Len(memory))
    ELSE memory

\* variant of TrimMemory that never trims
TrimMemory_Never(memory) == memory

\* if len(conversation_memory) > MAX_MEMORY: conversation_memory = conversation_memory[-MAX_MEMORY:]
TrimMemory(memory) == IF Len(memory) > MAX_MEMORY THEN LastMax(memory) ELSE memory

ValueError(text) == [exc |-> "ValueError", err |-> text]

\* One add_to_memory call: how it ends and the memory it leaves.
add_to_memory(user_message, bot_response, memory) ==
    IF InvalidMessage(user_message)
    THEN [status |-> "raised", value |-> ValueError("user_message must be a non-empty string"),
          memory |-> memory]
    ELSE IF InvalidMessage(bot_response)
    THEN [status |-> "raised", value |-> ValueError("bot_response must be a non-empty string"),
          memory |-> memory]
    ELSE [status |-> "returned", value |-> PyNone,
          memory |-> TrimMemory(Append(memory, <<Strip(user_message.s), Strip(bot_response.s)>>))]

\* sep.join(parts)
RECURSIVE Join(_, _)
Join(sep, parts) ==
    IF parts = <<>> THEN <<>>
    ELSE IF Len(parts) = 1 THEN parts[1]
    ELSE parts[1] \o sep \o Join(sep, Tail(parts))

S_User == <<"U","s","e","r",":"," ">>
S_Bot == <<"B","o","t",":"," ">>

\* f"User: {u}\nBot: {b}"
Turn(pair) == S_User \o pair[1] \o <<"\n">> \o S_Bot \o pair[2]

\* get_recent_memory, memory.py:37-49
get_recent_memory(memory) ==
    IF memory = <<>> THEN <<>>
    ELSE Join(<<"\n">>, [i \in 1..Len(LastMax(memory)) |-> Turn(LastMax(memory)[i])])

\* clear_memory, memory.py:52-55
clear_memory(memory) == <<>>

M_hi == PyStr(<<" ","h","i">>)
M_blank == PyStr(<<" ">>)
M_ok == PyStr(<<"o","k","\n">>)

\* the arguments of the long runs: two user messages that pass the checks, one
\* of them whitespace only, and None
MemUsers == {M_hi, M_blank, PyNone}
MemBots == {M_ok}

\* the arguments of the single calls
AllMessages ==
    {M_hi, M_blank, M_ok, PyStr(<<"\t","\n">>), PyStr(<<>>), PyNone, PyInt(0), PyInt(5), PyBool(TRUE),
     PyList(<<M_hi>>)}

MaxAdds == 12

\* the state outside memory.py, left alone by its operations
apiVars == <<now, ALPHAVANTAGE_API_KEY, API_CALL_CACHE, arg, observed, served, cleared, pending, threads>>

InitMem ==
    /\ now = 0
    /\ ALPHAVANTAGE_API_KEY = PyNone
    /\ API_CALL_CACHE = EmptyDict
    /\ last = NoCall
    /\ arg = PyNone
    /\ observed = EmptyDict
    /\ served = EmptyDict
    /\ cleared = {}
    /\ RestInit

AddToMemoryOver(U, B) ==
    \E user_message \in U, bot_response \in B :
    \E out \in {add_to_memory(user_message, bot_response, conversation_memory)} :
        /\ Len(appended) < MaxAdds
        /\ conversation_memory' = out.memory
        /\ appended' = IF out.status = "returned" THEN Append(appended, <<user_message, bot_response>>)
                       ELSE appended
        /\ last' = [NoCall EXCEPT !.op = "add_to_memory",
                                  !.query = [user |-> user_message, bot |-> bot_response],
                                  !.status = out.status, !.value = out.value]
        /\ UNCHANGED apiVars

AddToMemory == AddToMemoryOver(MemUsers, MemBots)

GetRecentMemory ==
    /\ last' = [NoCall EXCEPT !.op = "get_recent_memory", !.status = "returned",
                              !.value = get_recent_memory(conversation_memory)]
    /\ UNCHANGED <<conversation_memory, appended>>
    /\ UNCHANGED apiVars

ClearMemory ==
    /\ conversation_memory' = clear_memory(conversation_memory)
    /\ appended' = <<>>
    /\ last' = [NoCall EXCEPT !.op = "clear_memory", !.status = "returned"]
    /\ UNCHANGED apiVars

NextMem == AddToMemory \/ GetRecentMemory \/ ClearMemory

SpecMem == InitMem /\ [][NextMem]_vars

-----------------------------------------------------------------------------
(* Single calls on the memory: one add_to_memory over every pair of         *)
(* arguments, from a memory that earlier calls have filled                  *)

\* the n-th message of the filling calls
M_nth(n) == PyStr(<<"m">> \o NatToStr(n))

RECURSIVE Filled(_)
\* conversation_memory after n add_to_memory calls on the empty memory
Filled(n) == IF n = 0 THEN <<>> ELSE add_to_memory(M_nth(n), M_ok, Filled(n - 1)).memory

Fills == {0, 1, 9, 10, 11}

InitMemCall ==
    \E n \in Fills :
        /\ conversation_memory = Filled(n)
        /\ appended = [i \in 1..n |-> <<M_nth(i), M_ok>>]
        /\ pending = {}
        /\ threads = {}
        /\ now = 0
        /\ ALPHAVANTAGE_API_KEY = PyNone
        /\ API_CALL_CACHE = EmptyDict
        /\ last = NoCall
        /\ arg = PyNone
        /\ observed = EmptyDict
        /\ served = EmptyDict
        /\ cleared = {}

OneAdd == last.op = "none" /\ AddToMemoryOver(AllMessages, AllMessages)

NextMemCall == OneAdd

SpecMemCall == InitMemCall /\ [][NextMemCall]_vars

-----------------------------------------------------------------------------
(* Properties of the conversation memory *)

\* a step that is one add_to_memory call; last' is that call
AddStep == last'.op = "add_to_memory"

\* the pair an add_to_memory call with these arguments appends
PairOf(args) == <<Trim(args[1].s), Trim(args[2].s)>>

\* the last n elements of a sequence
LastN(s, n) == [i \in 1..n |-> s[Len(s) - n + i]]

\* C11: after any sequence of add_to_memory, get_recent_memory and
\* clear_memory calls, raising add_to_memory calls included, the length of
\* conversation_memory never exceeds MAX_MEMORY = 10.
C11_MemoryBounded == Len(conversation_memory) <= 10

C11_Witness ==
    /\ last.op = "add_to_memory"
    /\ last.status = "raised"
    /\ Len(appended) = 11
    /\ Len(conversation_memory) = 10

\* the lines of the rendering: "User: u" and "Bot: b" in turn
Lines(memory) ==
    [j \in 1..(2 * Len(memory)) |->
        IF j % 2 = 1 THEN S_User \o memory[(j + 1) \div 2][1] ELSE S_Bot \o memory[j \div 2][2]]

RECURSIVE Unlines(_)
\* lines with a newline between each two
Unlines(lines) ==
    IF lines = <<>> THEN <<>>
    ELSE IF Len(lines) = 1 THEN lines[1]
    ELSE Unlines(SubSeq(lines, 1, Len(lines) - 1)) \o <<"\n">> \o lines[Len(lines)]

C13_RaisesOrAppends ==
    [][AddStep =>
        IF ~TextQuery(last'.query.user) \/ ~TextQuery(last'.query.bot)
        THEN /\ last'.status = "raised"
             /\ last'.value.exc = "ValueError"
             /\ conversation_memory' = conversation_memory
        ELSE /\ last'.status = "returned"
             /\ LET grown == Append(conversation_memory, PairOf(<<last'.query.user, last'.query.bot>>))
                IN  conversation_memory' = LastN(grown, Min({Len(grown), 10}))]_vars

C13_Witness ==
    /\ last.op = "add_to_memory"
    /\ last.query = [user |-> M_hi, bot |-> PyStr(<<>>)]
    /\ last.status = "raised"
    /\ last.value = ValueError("bot_response must be a non-empty string")
    /\ Len(conversation_memory) = 10
    /\ conversation_memory[10] = <<<<"m","1","1">>, <<"o","k">>>>

\* C19: every pair retained in conversation_memory consists of two non-empty
\* strings.
C19_PairsNonEmpty ==
    \A i \in 1..Len(conversation_memory) :
        conversation_memory[i][1] # <<>> /\ conversation_memory[i][2] # <<>>

-----------------------------------------------------------------------------
(* get_intraday_data, api.py:162-218 *)

\* ["1min", "5min", "15min", "30min", "60min"], api.py:176
INTERVALS ==
    <<PyStr(<<"1","m","i","n">>), PyStr(<<"5","m","i","n">>), PyStr(<<"1","5","m","i","n">>),
      PyStr(<<"3","0","m","i","n">>), PyStr(<<"6","0","m","i","n">>)>>

\* variant of ValidInterval that accepts every string
ValidInterval_AnyStr(interval) == IsStr(interval)

\* interval in [...]: list membership, by equality, for a value of any type
ValidInterval(interval) == \E i \in 1..Len(INTERVALS) : INTERVALS[i] = interval

\* time_series_key = f"Time Series ({interval})"
SeriesKey(interval) ==
    <<"T","i","m","e"," ","S","e","r","i","e","s"," ","(">> \o interval.s \o <<")">>

\* a JSON object whose keys keep the order of the document
PyODict(keys, d) == [t |-> "dict", d |-> d, keys |-> keys]

\* the five fields of the record, in the order the f-string reads them
OHLCV ==
    <<<<"1","."," ","o","p","e","n">>, <<"2","."," ","h","i","g","h">>, <<"3","."," ","l","o","w">>,
      <<"4","."," ","c","l","o","s","e">>, <<"5","."," ","v","o","l","u","m","e">>>>

\* except Exception as e: return f"... {str(e)}", api.py:217-218.  The text of
\* an exception that Python itself raises is left out: err is empty for it.
IntradayError(exc, err) ==
    [status |-> "returned",
     value |-> [msg |-> "Error fetching intraday data: {str(e)}", exc |-> exc, err |-> err]]

\* api.py:194-215, the body of the try block once response.json() has returned data
ReadIntraday(symbol, interval, data) ==
    IF ~SupportsIn(data) THEN IntradayError("TypeError", <<>>)
    ELSE IF In(K_ErrorMessage, data)
    THEN IF data.t = "dict"
         THEN [status |-> "returned", value |-> MsgApiError(PyFormat(data.d[K_ErrorMessage]))]
         ELSE IntradayError("TypeError", <<>>)
    ELSE IF ~In(SeriesKey(interval), data)
    THEN [status |-> "returned",
          value |-> [msg |-> "Could not retrieve intraday data for {symbol}.", symbol |-> symbol]]
    ELSE IF data.t # "dict" THEN IntradayError("TypeError", <<>>)
    ELSE LET time_series == data.d[SeriesKey(interval)]
         IN  IF time_series.t # "dict" THEN IntradayError("AttributeError", <<>>)
             ELSE IF time_series.keys = <<>> THEN IntradayError("IndexError", <<>>)
             ELSE LET latest_time == time_series.keys[1]
                      latest_data == time_series.d[latest_time]
                  IN  IF latest_data.t # "dict" THEN IntradayError("TypeError", <<>>)
                      ELSE IF \E i \in 1..Len(OHLCV) : OHLCV[i] \notin DOMAIN latest_data.d
                           THEN LET i == CHOOSE i \in 1..Len(OHLCV) :
                                           /\ OHLCV[i] \notin DOMAIN latest_data.d
                                           /\ \A j \in 1..(i - 1) : OHLCV[j] \in DOMAIN latest_data.d
                                IN  IntradayError("KeyError", <<"'">> \o OHLCV[i] \o <<"'">>)
                      ELSE [status |-> "returned",
                            value |-> [msg |-> "{symbol} Intraday ({interval}) - {latest_time}: Open: ${1. open}, High: ${2. high}, Low: ${3. low}, Close: ${4. close}, Volume: {5. volume}",
                                       symbol |-> symbol, interval |-> interval.s, latest_time |-> latest_time,
                                       fields |-> [i \in 1..Len(OHLCV) |-> PyFormat(latest_data.d[OHLCV[i]])]]]

\* One call: how it ends, the requests it issued and the stages it went through.
get_intraday_data(query, interval, api_key, response) ==
    IF InvalidQuery(query)
    THEN [status |-> "returned", value |-> [msg |-> "Invalid query provided."], requests |-> 0,
          steps |-> <<"validate">>]
    ELSE IF ~ValidInterval(interval)
    THEN [status |-> "returned",
          value |-> [msg |-> "Invalid interval. Choose from: 1min, 5min, 15min, 30min, 60min"],
          requests |-> 0, steps |-> <<"validate", "interval">>]
    ELSE IF NotConfigured(api_key)
    THEN [status |-> "returned", value |-> [msg |-> "Alpha Vantage API key not configured."],
          requests |-> 0, steps |-> <<"validate", "interval", "credential">>]
    ELSE LET symbol == get_symbol(query)
         IN  IF ~Truthy(symbol)
             THEN [status |-> "returned",
                   value |-> [msg |-> "Could not identify stock for '{query}'.", query |-> query.s],
                   requests |-> 0, steps |-> <<"validate", "interval", "credential", "resolve">>]
             ELSE LET out == IF response.kind = "raise" THEN IntradayError(response.exc, response.err)
                             ELSE ReadIntraday(symbol.s, interval, response.data)
                  IN  [status |-> out.status, value |-> out.value, requests |-> 1,
                       steps |-> <<"validate", "interval", "credential", "resolve", "request">>]

I_2min == PyStr(<<"2","m","i","n">>)

\* the intervals tried: the five of the list, and values that are not in it
Intervals ==
    {INTERVALS[i] : i \in 1..Len(INTERVALS)}
    \cup {I_2min, PyStr(<<"5","M","I","N">>), PyStr(<<" ","5","m","i","n">>), PyStr(<<"5">>), PyStr(<<>>),
          PyNone, PyInt(5), PyList(<<INTERVALS[2]>>)}

T_1000 == <<"2","0","2","4","-","0","1","-","0","2"," ","1","0",":","0","0",":","0","0">>
T_0955 == <<"2","0","2","4","-","0","1","-","0","2"," ","0","9",":","5","5",":","0","0">>

\* a record with the first n of the five fields
Bar(n) == PyDict([k \in {OHLCV[i] : i \in 1..n} |-> P_150])

\* a body with a series for the interval
Series(interval, keys, d) == Json(PyDict((SeriesKey(interval) :> PyODict(keys, d))))

\* the replies to an intraday request for its interval
IntradayResponses(interval) ==
    Thrown
    \cup {Series(interval, <<T_1000, T_0955>>, (T_1000 :> Bar(5)) @@ (T_0955 :> Bar(4))),
          Series(interval, <<T_0955, T_1000>>, (T_1000 :> Bar(5)) @@ (T_0955 :> Bar(4))),
          Series(interval, <<T_1000>>, (T_1000 :> Bar(0))),
          Series(interval, <<T_1000>>, (T_1000 :> PyNone)),
          Series(interval, <<>>, EmptyDict),
          Series(INTERVALS[1], <<T_1000>>, (T_1000 :> Bar(5))),
          Json(PyDict((SeriesKey(interval) :> PyNone))),
          Json(PyDict((K_ErrorMessage :> PyStr(<<"I","n","v","a","l","i","d"," ","A","P","I"," ","c","a","l","l",".">>)))),
          Json(PyDict(EmptyDict)), Json(PyNone), Json(PyList(<<>>)), Json(PyStr(SeriesKey(interval))),
          Json(PyList(<<PyStr(SeriesKey(interval))>>))}

\* a call get_intraday_data(query, interval), answered by `response` if it reaches the network
CallIntraday(query, interval, response) ==
    \E out \in {get_intraday_data(query, interval, ALPHAVANTAGE_API_KEY, response)} :
        /\ last' = [op |-> "get_intraday_data", query |-> query, interval |-> interval,
                    status |-> out.status, value |-> out.value, requests |-> out.requests,
                    steps |-> out.steps]
        /\ UNCHANGED <<now, ALPHAVANTAGE_API_KEY, API_CALL_CACHE, arg, observed, served, cleared>>
        /\ UNCHANGED restVars

GetIntradayData ==
    \E query \in AllQueries, interval \in Intervals :
        IF get_intraday_data(query, interval, ALPHAVANTAGE_API_KEY, R_Timeout).requests = 1
        THEN \E response \in IntradayResponses(interval) : CallIntraday(query, interval, response)
        ELSE CallIntraday(query, interval, R_Timeout)

\* one get_intraday_data call, from the states of the single get_stock_price calls
OneIntraday == last.op = "none" /\ GetIntradayData

NextIntraday == OneIntraday

SpecIntraday == InitFetch /\ [][NextIntraday]_vars

\* a step that is one get_intraday_data call; last' is that call
IntradayStep == last'.op = "get_intraday_data"

\* C14: get_intraday_data with a non-empty text query and an interval outside
\* {1min, 5min, 15min, 30min, 60min} returns the invalid-interval message
\* without resolver or request, whatever the credential; and no
\* get_intraday_data call changes API_CALL_CACHE.
C14_IntervalBeforeAll ==
    [][IntradayStep =>
        /\ API_CALL_CACHE' = API_CALL_CACHE
        /\ (/\ TextQuery(last'.query)
            /\ \/ last'.interval.t # "str"
               \/ last'.interval.s \notin {<<"1","m","i","n">>, <<"5","m","i","n">>, <<"1","5","m","i","n">>,
                                          <<"3","0","m","i","n">>, <<"6","0","m","i","n">>})
           => (/\ last'.status = "returned"
               /\ last'.value = [msg |-> "Invalid interval. Choose from: 1min, 5min, 15min, 30min, 60min"]
               /\ last'.requests = 0
               /\ ~Did(last', "resolve")
               /\ ~Did(last', "credential"))]_vars

C14_Witness ==
    /\ last.op = "get_intraday_data"
    /\ last.query = Q_Apple
    /\ last.interval = I_2min
    /\ last.value = [msg |-> "Invalid interval. Choose from: 1min, 5min, 15min, 30min, 60min"]
    /\ ALPHAVANTAGE_API_KEY = PyNone
    /\ KeyOf(Q_Apple) \in DOMAIN API_CALL_CACHE

-----------------------------------------------------------------------------
(* The single request of get_stock_price *)

\* C15: a get_stock_price call issues at most one request, failures included,
\* and issues it only after the query was found to be non-empty text, the
\* credential configured, the cache entry of its key absent or stale, and the
\* resolver returned a ticker, in this order.
C15_OneRequestAfterChecks ==
    [][CallStep =>
        /\ last'.requests \in {0, 1}
        /\ last'.requests = 1
           => (/\ TextQuery(last'.query)
               /\ KeySet
               /\ \/ KeyOf(last'.query) \notin DOMAIN API_CALL_CACHE
                  \/ Age(API_CALL_CACHE[KeyOf(last'.query)]) >= 60
               /\ RefSymbol(last'.query) # PyNone
               /\ SubSeq(last'.steps, 1, 5) = <<"validate", "credential", "cache", "resolve", "request">>)
        /\ (GaveFailure(last') /\ Did(last', "request")) => last'.requests = 1]_vars

C15_Witness ==
    /\ PriceCalled
    /\ last.query = Q_AAPL
    /\ last.value = MsgTimeout
    /\ last.requests = 1
    /\ KeyOf(Q_AAPL) \in DOMAIN API_CALL_CACHE
    /\ Age(API_CALL_CACHE[KeyOf(Q_AAPL)]) = 60

-----------------------------------------------------------------------------
(* mcp.py: the simulated remote data sources *)

IsLetter(c) == ToLower(c) # c \/ ToUpper(c) # c

\* str.title(): a letter is upper-cased after a character that is no letter
\* and lower-cased after a letter
Title(s) ==
    [i \in 1..Len(s) |-> IF i = 1 \/ ~IsLetter(s[i - 1]) THEN ToUpper(s[i]) ELSE ToLower(s[i])]

\* the term lists of mcp.py:38, 44 and 50 with the response each selects
TERMS ==
    <<[response |-> "Crypto Market Data for '{query.title()}'",
       terms |-> {<<"b","i","t","c","o","i","n">>, <<"c","r","y","p","t","o">>, <<"e","t","h","e","r","e","u","m">>}],
      [response |-> "Tech Sector Analysis for '{query.title()}'",
       terms |-> {<<"t","e","c","h">>, <<"a","p","p","l","e">>, <<"m","i","c","r","o","s","o","f","t">>, <<"g","o","o","g","l","e">>}],
      [response |-> "Dividend & Income Strategy for '{query.title()}'",
       terms |-> {<<"d","i","v","i","d","e","n","d">>, <<"i","n","c","o","m","e">>}]>>

\* the if/elif chain of mcp.py:38-61
RECURSIVE Research(_, _)
Research(query_lower, i) ==
    IF i > Len(TERMS) THEN "Market Research for '{query.title()}'"
    ELSE IF \E term \in TERMS[i].terms : Contains(query_lower, term) THEN TERMS[i].response
    ELSE Research(query_lower, i + 1)

\* yahoo_finance_search, mcp.py:14-68: what the coroutine ends with; `slept`
\* tells whether it suspends at await asyncio.sleep(0.5) before it ends
yahoo_finance_search(query) ==
    IF InvalidQuery(query)
    THEN [status |-> "raised", value |-> ValueError("query must be a non-empty string"), slept |-> FALSE]
    ELSE [status |-> "returned",
          value |-> [msg |-> Research(Strip(Lower(query.s)), 1), query |-> Title(query.s)],
          slept |-> TRUE]

\* get_market_summary, mcp.py:99-118
get_market_summary ==
    [status |-> "returned", value |-> [msg |-> "Market Summary: ..."], slept |-> TRUE]

\* the keyword parameters of asyncio.gather(*aws, return_exceptions=False)
GatherKeywords == {"return_exceptions"}

\* "\n".join(filter(None, results)), mcp.py:165
JoinResults(results) == [joined |-> SelectSeq(results, LAMBDA r : r # PyNone)]

\* combined_market_query, mcp.py:144-167.  The call of asyncio.gather passes
\* the keyword raise_exceptions (mcp.py:162): gather() raises TypeError on a
\* keyword it does not have, before any of the coroutines is scheduled, and
\* except Exception (mcp.py:166) turns that into the returned message.
combined_market_query(query) ==
    IF InvalidQuery(query)
    THEN [status |-> "raised", value |-> ValueError("query must be a non-empty string"), started |-> {}]
    ELSE IF "raise_exceptions" \notin GatherKeywords
    THEN [status |-> "returned",
          value |-> [msg |-> "Error in combined market query: {str(e)}",
                     err |-> "gather() got an unexpected keyword argument 'raise_exceptions'"],
          started |-> {}]
    ELSE [status |-> "returned",
          value |-> JoinResults(<<yahoo_finance_search(query).value, get_market_summary.value>>),
          started |-> {"yahoo_finance_search", "get_market_summary"}]

McpQueries ==
    {Q_Apple, PyStr(<<" ","b","i","t","c","o","i","n"," ","n","e","w","s"," ">>),
     PyStr(<<"i","n","c","o","m","e"," ","t","e","c","h">>), PyStr(<<"o","'","n","e","i","l"," ","3","c","o","m">>),
     Q_blank, Q_empty, PyNone, PyInt(5)}

MaxPending == 2

\* the state outside mcp.py, left alone by its operations
mcpRest ==
    <<now, ALPHAVANTAGE_API_KEY, API_CALL_CACHE, arg, observed, served, cleared, conversation_memory,
      appended, threads>>

\* a coroutine is started: it raises at once or suspends at its sleep
Start(op, query, out) ==
    /\ Cardinality(pending) < MaxPending
    /\ IF out.slept
       THEN /\ [op |-> op, query |-> query] \notin pending
            /\ pending' = pending \cup {[op |-> op, query |-> query]}
            /\ last' = [NoCall EXCEPT !.op = op, !.query = query, !.status = "suspended"]
       ELSE /\ pending' = pending
            /\ last' = [NoCall EXCEPT !.op = op, !.query = query, !.status = out.status, !.value = out.value]
    /\ UNCHANGED mcpRest

YahooStart == \E query \in McpQueries : Start("yahoo_finance_search", query, yahoo_finance_search(query))

SummaryStart == Start("get_market_summary", PyNone, get_market_summary)

\* the sleep of a suspended coroutine is over: it runs to its end
Finish ==
    \E c \in pending :
    \E out \in {IF c.op = "yahoo_finance_search" THEN yahoo_finance_search(c.query) ELSE get_market_summary} :
        /\ pending' = pending \ {c}
        /\ last' = [NoCall EXCEPT !.op = c.op, !.query = c.query, !.status = out.status, !.value = out.value]
        /\ UNCHANGED mcpRest

CombinedMarketQuery ==
    \E query \in McpQueries :
    \E out \in {combined_market_query(query)} :
        /\ out.started = {}
        /\ pending' = pending
        /\ last' = [NoCall EXCEPT !.op = "combined_market_query", !.query = query, !.status = out.status,
                                  !.value = out.value]
        /\ UNCHANGED mcpRest

NextMcp == YahooStart \/ SummaryStart \/ Finish \/ CombinedMarketQuery

SpecMcp == InitMem /\ [][NextMcp]_vars

\* C16: combined_market_query(query) with a non-empty string query returns the
\* results of yahoo_finance_search(query) and get_market_summary() joined by
\* newlines.
C16_CombinesBoth ==
    (last.op = "combined_market_query" /\ TextQuery(last.query))
    => (/\ last.status = "returned"
        /\ "joined" \in DOMAIN last.value
        /\ last.value.joined = <<yahoo_finance_search(last.query).value, get_market_summary.value>>)

-----------------------------------------------------------------------------
(* Overlapping get_stock_price calls: callers on several threads share the  *)
(* module's API_CALL_CACHE.  A call runs from its start to requests.get     *)
(* (api.py:106-130) in one step, blocks there, and runs from the reply to   *)
(* its return (api.py:131-159) in another; other calls run in between.      *)

Threads == {"t1", "t2"}

ThreadQueries == {Q_AAPL, Q_aapl, Q_Apple}

\* the cache entry of a key as a call sees it: <<entry>>, or <<>> when there is none
Seen(cache, cache_key) == IF cache_key \in DOMAIN cache THEN <<cache[cache_key]>> ELSE <<>>

\* api.py:106-130 on thread id: the call returns early, or blocks in requests.get
ThreadStart ==
    \E id \in Threads, query \in ThreadQueries :
    \E out \in {get_stock_price(query, ALPHAVANTAGE_API_KEY, API_CALL_CACHE, now, R_Timeout)} :
        /\ \A c \in threads : c.id # id
        /\ threads' = IF out.requests = 1
                      THEN threads \cup {[id |-> id, query |-> query, symbol |-> get_symbol(query).s,
                                          seen |-> Seen(API_CALL_CACHE, CacheKey(query))]}
                      ELSE threads
        /\ last' = [op |-> "get_stock_price", id |-> id, phase |-> "start", query |-> query,
                    status |-> IF out.requests = 1 THEN "blocked" ELSE out.status,
                    value |-> IF out.requests = 1 THEN [msg |-> ""] ELSE out.value,
                    requests |-> out.requests]
        /\ UNCHANGED <<now, ALPHAVANTAGE_API_KEY, API_CALL_CACHE, arg, observed, served, cleared,
                       conversation_memory, appended, pending>>

\* api.py:130-159 on a blocked thread: the reply arrives, the call stores and returns
ThreadFinish ==
    \E c \in threads, response \in {R_Up, R_Down, R_Timeout} :
    \E out \in {TryRequest(c.symbol, response)} :
        /\ threads' = threads \ {c}
        /\ API_CALL_CACHE' = IF out.store THEN CachePut(API_CALL_CACHE, CacheKey(c.query), out.value, now)
                             ELSE API_CALL_CACHE
        /\ last' = [op |-> "get_stock_price", id |-> c.id, phase |-> "finish", query |-> c.query,
                    status |-> out.status, value |-> out.value, requests |-> 1]
        /\ UNCHANGED <<now, ALPHAVANTAGE_API_KEY, arg, observed, served, cleared,
                       conversation_memory, appended, pending>>

InitThreads ==
    /\ now = 0
    /\ ALPHAVANTAGE_API_KEY = K_demo
    /\ API_CALL_CACHE = EmptyDict
    /\ last = NoCall
    /\ arg = PyNone
    /\ observed = EmptyDict
    /\ served = EmptyDict
    /\ cleared = {}
    /\ RestInit

NextThreads == ThreadStart \/ ThreadFinish \/ Tick

SpecThreads == InitThreads /\ [][NextThreads]_vars

\* C17: nothing serializes the cache read and the later cache write.  When a
\* call starts for a key while another call for that key is blocked in its
\* request, and the key's entry is as that call found it, the new call misses
\* too and issues its own request, so two requests for one key are in flight;
\* every call that ends with a price overwrites the key's entry, so the entry
\* left is the one written last.
C17_DuplicateFetches ==
    [][/\ (/\ last'.op = "get_stock_price"
           /\ last' # last
           /\ last'.phase = "start")
          => \A c \in threads :
                (/\ KeyOf(c.query) = KeyOf(last'.query)
                 /\ Seen(API_CALL_CACHE, KeyOf(c.query)) = c.seen)
                => (/\ last'.status = "blocked"
                    /\ last'.requests = 1
                    /\ c \in threads'
                    /\ \E d \in threads' : d.id = last'.id /\ d.id # c.id /\ KeyOf(d.query) = KeyOf(c.query))
       /\ (/\ last'.op = "get_stock_price"
           /\ last' # last
           /\ last'.phase = "finish"
           /\ GavePrice(last'))
          => API_CALL_CACHE'[KeyOf(last'.query)] = <<last'.value, now>>]_vars

C17_Witness ==
    /\ last.op = "get_stock_price"
    /\ last.phase = "start"
    /\ last.status = "blocked"
    /\ last.query = Q_aapl
    /\ \E c, d \in threads :
          /\ c.id # d.id
          /\ d.id = last.id
          /\ c.query = Q_AAPL
          /\ KeyOf(c.query) = KeyOf(d.query)
          /\ c.seen = d.seen
          /\ KeyOf(c.query) \notin DOMAIN API_CALL_CACHE

-----------------------------------------------------------------------------
(* What API_CALL_CACHE holds *)

\* the text after "price_" in a cache key
QueryOf(cache_key) == SubSeq(cache_key, Len(S_Prefix) + 1, Len(cache_key))

\* C18: in every reachable state every key of API_CALL_CACHE is "price_" + q
\* with q a lower-cased text that _get_symbol resolves to a ticker T, and the
\* value stored under it is a formatted price string for that T, never one of
\* the failure messages.
C18_CacheHoldsPrices ==
    \A k \in DOMAIN API_CALL_CACHE :
        /\ Len(k) >= Len(S_Prefix)
        /\ SubSeq(k, 1, Len(S_Prefix)) = S_Prefix
        /\ Lower(QueryOf(k)) = QueryOf(k)
        /\ Truthy(get_symbol(PyStr(QueryOf(k))))
        /\ IsPriceResult(API_CALL_CACHE[k][1])
        /\ API_CALL_CACHE[k][1].symbol = get_symbol(PyStr(QueryOf(k))).s
        /\ API_CALL_CACHE[k][1].msg = MsgPrice("", <<>>, <<>>, <<>>, <<>>).msg

C18_Witness ==
    /\ last.op = "get_stock_price"
    /\ last.query = Q_aapl
    /\ last.requests = 1
    /\ GavePrice(last)
    /\ DOMAIN API_CALL_CACHE = {KeyOf(Q_AAPL_space), KeyOf(Q_aapl)}
    /\ API_CALL_CACHE[KeyOf(Q_aapl)][1] = last.value
    /\ API_CALL_CACHE[KeyOf(Q_AAPL_space)][1].symbol = get_symbol(Q_AAPL).s

====
